---- MODULE Spec2Model ----
(***************************************************************************)
(* ShiViz causal graph: the ModelGraph constructor (initHosts,             *)
(* initPrevNext, initParentChild), the unused stepThroughAndVerify, clone  *)
(* and the observe flags, as a state machine over bounded event lists;     *)
(* and the log parsing in front of it: LogParser and ExecutionParser over  *)
(* bounded log texts.                                                      *)
(***************************************************************************)
EXTENDS Integers, Sequences, FiniteSets, TLC

\* ---------------------------------------------------------------- bounds
\* Largest clock value in the general input family (any host, any clock).
MaxTime == 1
\* Longest event list in the general input family.
MaxEvents == 2
\* Longest event list drawn from the events of the documented scenarios.
MaxScenarioEvents == 4
\* Longest event list of the graphs that are cloned and observed.
MaxCloneEvents == 3
\* Most calls made on the graphs after construction (clone not counted).
MaxOps == 2
\* Longest raw log text handed to LogParser, in characters.
MaxChars == 4

\* ---------------------------------------------------------------- values
\* JS null / undefined for references; node ids start at 1.
NULL == 0

\* Host names in a fixed enumeration order.
HostOrder == <<"h1", "h2", "h3">>

Hosts == {HostOrder[i] : i \in 1..Len(HostOrder)}

Range(s) == {s[i] : i \in 1..Len(s)}

Max(a, b) == IF a >= b THEN a ELSE b

MinOf(S) == CHOOSE x \in S : \A y \in S : x <= y

\* A vector timestamp: clock[h] = 0 stands for "no entry for h"; the owner's
\* entry is present and every present entry is >= 1.
ClocksOver(H, T, h) == {c \in [Hosts -> 0..T] : c[h] >= 1}

\* A log event as the graph builder sees it: its host and its timestamp.
EventsOver(H, T) ==
    UNION {{[host |-> h, clock |-> c] : c \in ClocksOver(H, T, h)} : h \in H}

ListsOver(E, N) == UNION {[1..n -> E] : n \in 0..N}

ClockOf(t1, t2, t3) ==
    [h \in Hosts |-> IF h = "h1" THEN t1 ELSE IF h = "h2" THEN t2 ELSE t3]

\* Scenario B: h1 at {h1:1} and {h1:2,h2:1}; h2 at {h2:1} and {h2:2,h1:2}.
ScenarioBEvents ==
    {[host |-> "h1", clock |-> ClockOf(1, 0, 0)],
     [host |-> "h1", clock |-> ClockOf(2, 1, 0)],
     [host |-> "h2", clock |-> ClockOf(0, 1, 0)],
     [host |-> "h2", clock |-> ClockOf(2, 2, 0)]}

\* Scenario C: h3 has two events; a clock of h1 names h3 at time 5.
ScenarioCEvents ==
    {[host |-> "h3", clock |-> ClockOf(0, 0, 1)],
     [host |-> "h3", clock |-> ClockOf(0, 0, 2)],
     [host |-> "h1", clock |-> ClockOf(1, 0, 5)]}

\* Scenario D: three events, each with the previous one's own time.
ScenarioDEvents ==
    {[host |-> "h1", clock |-> ClockOf(1, 0, 1)],
     [host |-> "h2", clock |-> ClockOf(1, 1, 0)],
     [host |-> "h3", clock |-> ClockOf(0, 1, 1)]}

\* The monotonicity boundary: a host whose own times start at 5, or jump
\* to 5 from the earlier events of h1.
WindowEvents ==
    {[host |-> "h1", clock |-> ClockOf(5, 0, 0)],
     [host |-> "h1", clock |-> ClockOf(6, 0, 0)]}

ScenarioEvents ==
    ScenarioBEvents \cup ScenarioCEvents \cup ScenarioDEvents \cup WindowEvents

\* Events whose clocks name two other hosts: h3 after an event of h2 that
\* names h1 at its first or second event, or does not name h1; and a second
\* event of h3 with the entries of its first.
TwoParentEvents ==
    {[host |-> "h1", clock |-> ClockOf(1, 0, 0)],
     [host |-> "h1", clock |-> ClockOf(2, 0, 0)],
     [host |-> "h2", clock |-> ClockOf(0, 1, 0)],
     [host |-> "h2", clock |-> ClockOf(1, 1, 0)],
     [host |-> "h2", clock |-> ClockOf(2, 1, 0)],
     [host |-> "h3", clock |-> ClockOf(1, 1, 1)],
     [host |-> "h3", clock |-> ClockOf(2, 1, 1)],
     [host |-> "h3", clock |-> ClockOf(1, 1, 2)]}

\* The event lists handed to the constructor: every list of the general
\* family, every list over the events of the scenarios, and every list over
\* the events with two candidate parents.
Inputs ==
    ListsOver(EventsOver(Hosts, MaxTime), MaxEvents)
        \cup ListsOver(ScenarioEvents, MaxScenarioEvents)
        \cup ListsOver(TwoParentEvents, MaxScenarioEvents)

\* ---------------------------------------------------------------- nodes
\* new ModelNode(logEvents): a node not yet linked to anything.  logEvents
\* holds indices into the input list (the identity of each LogEvent).
ModelNode(evs) ==
    [host |-> "", logEvents |-> evs, isHeadInner |-> FALSE,
     isTailInner |-> FALSE, prev |-> NULL, next |-> NULL,
     hostToParent |-> [h \in Hosts |-> NULL], children |-> {},
     graph |-> NULL, visualNode |-> NULL, shouldObserve |-> FALSE,
     nodeType |-> "undefined"]

\* getVT(node): the timestamp of the node's first log event.
getVT(nodes, evs, n) == evs[nodes[n].logEvents[1]].clock

\* getTime(node): the owner's own time.
getTime(nodes, evs, n) == getVT(nodes, evs, n)[nodes[n].host]

\* The state of a ModelGraph under construction: the graph's fields, the
\* node objects allocated so far, and the constructor's local dictionaries.
EmptyBuild(gid, firstId) ==
    [gid |-> gid, nodesToObserve |-> {}, hosts |-> <<>>,
     hostToHead |-> [h \in Hosts |-> NULL],
     hostToTail |-> [h \in Hosts |-> NULL],
     nodes |-> <<>>, nextId |-> firstId,
     hostToNodes |-> [h \in Hosts |-> <<>>],
     hostToStartTime |-> [h \in Hosts |-> NULL],
     error |-> [kind |-> "none", node |-> NULL, lastNode |-> NULL]]

\* ---------------------------------------------------------------- initHosts
\* InitHostsStep with the new host put in front of the host list (unshift
\* for push).
InitHostsStepUnshift(s, evs, i) ==
    LET host == evs[i].host
        id == s.nextId
        node == [ModelNode(<<i>>) EXCEPT !.host = host, !.graph = s.gid]
        head == [ModelNode(<<>>) EXCEPT !.isHeadInner = TRUE, !.host = host,
                     !.graph = s.gid, !.next = id + 2]
        tail == [ModelNode(<<>>) EXCEPT !.isTailInner = TRUE, !.host = host,
                     !.graph = s.gid, !.prev = id + 1]
    IN  IF host \notin Range(s.hosts)
        THEN [s EXCEPT !.hosts = <<host>> \o @,
                       !.nodes = (id :> node) @@ (id + 1 :> head)
                                     @@ (id + 2 :> tail) @@ @,
                       !.nextId = id + 3,
                       !.hostToHead[host] = id + 1,
                       !.hostToTail[host] = id + 2,
                       !.hostToNodes[host] = <<id>>]
        ELSE [s EXCEPT !.nodes = (id :> node) @@ @,
                       !.nextId = id + 1,
                       !.hostToNodes[host] = Append(@, id)]

\* One iteration of initHosts' loop, for input event i.
InitHostsStep(s, evs, i) ==
    LET host == evs[i].host
        id == s.nextId
        node == [ModelNode(<<i>>) EXCEPT !.host = host, !.graph = s.gid]
        isNew == host \notin Range(s.hosts)
        headId == id + 1
        tailId == id + 2
        head == [ModelNode(<<>>) EXCEPT !.isHeadInner = TRUE, !.host = host,
                     !.graph = s.gid, !.prev = NULL, !.next = tailId]
        tail == [ModelNode(<<>>) EXCEPT !.isTailInner = TRUE, !.host = host,
                     !.graph = s.gid, !.prev = headId, !.next = NULL]
    IN  IF isNew
        THEN [s EXCEPT !.hosts = Append(@, host),
                       !.nodes = (id :> node) @@ (headId :> head)
                                     @@ (tailId :> tail) @@ @,
                       !.nextId = id + 3,
                       !.hostToHead[host] = headId,
                       !.hostToTail[host] = tailId,
                       !.hostToNodes[host] = <<id>>]
        ELSE [s EXCEPT !.nodes = (id :> node) @@ @,
                       !.nextId = id + 1,
                       !.hostToNodes[host] = Append(@, id)]

RECURSIVE InitHostsLoop(_, _, _)
InitHostsLoop(s, evs, i) ==
    IF i > Len(evs) THEN s ELSE InitHostsLoop(InitHostsStep(s, evs, i), evs, i + 1)

initHosts(s, evs) == InitHostsLoop(s, evs, 1)

\* ---------------------------------------------------------------- initPrevNext
\* VectorTimestamp.compareToLocal: the difference of the two own times.
compareToLocal(nodes, evs, x, y) == getTime(nodes, evs, x) - getTime(nodes, evs, y)

\* Array.prototype.sort with that comparator (stable): insert x behind
\* every element that does not compare greater.
RECURSIVE InsertSorted(_, _, _, _)
InsertSorted(sorted, x, nodes, evs) ==
    IF sorted = <<>>
    THEN <<x>>
    ELSE LET last == sorted[Len(sorted)]
         IN  IF compareToLocal(nodes, evs, last, x) <= 0
             THEN Append(sorted, x)
             ELSE Append(InsertSorted(SubSeq(sorted, 1, Len(sorted) - 1),
                                      x, nodes, evs), last)

RECURSIVE SortLoop(_, _, _, _, _)
SortLoop(sorted, array, i, nodes, evs) ==
    IF i > Len(array)
    THEN sorted
    ELSE SortLoop(InsertSorted(sorted, array[i], nodes, evs), array, i + 1,
                  nodes, evs)

\* The sort left out: the array stays in input order.
sortByLocalTimeNone(array, nodes, evs) == array

sortByLocalTime(array, nodes, evs) == SortLoop(<<>>, array, 1, nodes, evs)

\* AbstractNode.insertNext for a node that is not linked yet: node goes
\* between this and this.next.
insertNext(nodes, this, node) ==
    IF nodes[this].next = node
    THEN nodes
    ELSE LET nxt == nodes[this].next
         IN  [nodes EXCEPT ![node].prev = this, ![node].next = nxt,
                           ![this].next = node, ![nxt].prev = node]

\* SpliceLoop without "lastNode = newNode": every node goes right behind
\* the head.
RECURSIVE SpliceLoopNoAdvance(_, _, _, _)
SpliceLoopNoAdvance(nodes, lastNode, array, i) ==
    IF i > Len(array)
    THEN nodes
    ELSE SpliceLoopNoAdvance(insertNext(nodes, lastNode, array[i]), lastNode,
                             array, i + 1)

\* The splice loop of initPrevNext: array[i..] behind lastNode.
RECURSIVE SpliceLoop(_, _, _, _)
SpliceLoop(nodes, lastNode, array, i) ==
    IF i > Len(array)
    THEN nodes
    ELSE SpliceLoop(insertNext(nodes, lastNode, array[i]), array[i], array, i + 1)

\* IncrementFailures with ">" for "!=": a repeated own time passes.
IncrementFailuresGapsOnly(array, nodes, evs) ==
    LET start == getTime(nodes, evs, array[1]) - 1
    IN  {i \in 1..Len(array) : getTime(nodes, evs, array[i]) > start + i}

\* The indices at which the increment check of initPrevNext fails.
IncrementFailures(array, nodes, evs) ==
    LET start == getTime(nodes, evs, array[1]) - 1
    IN  {i \in 1..Len(array) : getTime(nodes, evs, array[i]) /= start + i}

getClockIncrementException(node, lastNode) ==
    [kind |-> "ClockIncrement", node |-> node, lastNode |-> lastNode]

\* One iteration of initPrevNext's loop over hostToNodes, for the k-th host
\* in insertion order; stops at the first throw.
RECURSIVE InitPrevNextLoop(_, _, _)
InitPrevNextLoop(s, evs, k) ==
    IF k > Len(s.hosts)
    THEN s
    ELSE LET host == s.hosts[k]
             array == sortByLocalTime(s.hostToNodes[host], s.nodes, evs)
             bad == IncrementFailures(array, s.nodes, evs)
             s1 == [s EXCEPT !.hostToNodes[host] = array,
                             !.hostToStartTime[host] =
                                 getTime(s.nodes, evs, array[1]) - 1]
         IN  IF bad /= {}
             THEN [s1 EXCEPT !.error =
                      getClockIncrementException(array[MinOf(bad)],
                                                 array[MinOf(bad) - 1])]
             ELSE InitPrevNextLoop(
                      [s1 EXCEPT !.nodes =
                           SpliceLoop(@, s.hostToHead[host], array, 1)],
                      evs, k + 1)

initPrevNext(s, evs) == InitPrevNextLoop(s, evs, 1)

\* ---------------------------------------------------------------- initParentChild
\* AbstractNode.addChild: node becomes a child of this; a node keeps at most
\* one parent per host, so an earlier parent of node on this host is unlinked.
addChild(nodes, this, node) ==
    LET h == nodes[this].host
        old == nodes[node].hostToParent[h]
        n1 == IF old = NULL THEN nodes
              ELSE [nodes EXCEPT ![old].children = @ \ {node}]
    IN  IF old = this
        THEN nodes
        ELSE [n1 EXCEPT ![node].hostToParent[h] = this,
                        ![this].children = @ \cup {node}]

\* AbstractNode.addParent.
addParent(nodes, this, node) == addChild(nodes, node, this)

\* UpdatedHosts with "<=" for "<": an entry that did not advance counts.
UpdatedHostsOrEqual(clock, vt) == {o \in Hosts : vt[o] /= 0 /\ clock[o] <= vt[o]}

\* The hosts whose entry in vt is newer than the running clock, i.e. for
\* which "clock[otherHost] == undefined || clock[otherHost] < time" holds.
UpdatedHosts(clock, vt) == {o \in Hosts : vt[o] /= 0 /\ clock[o] < vt[o]}

\* OutOfBounds with the window start as lower bound: a time before the
\* first event of the host counts as out of bounds.
OutOfBoundsBelowWindow(s, otherHost, time) ==
    \/ time < 1 + s.hostToStartTime[otherHost]
    \/ time > s.hostToStartTime[otherHost] + Len(s.hostToNodes[otherHost])

\* OutOfBounds without the window start (times counted from 1).
OutOfBoundsNoWindow(s, otherHost, time) ==
    \/ time < 1
    \/ time > Len(s.hostToNodes[otherHost])

\* KnownHosts without the skip of hosts outside hostSet.
KnownHostsAll(s, upd) == upd

\* The updated hosts that are in hostSet; the others are skipped (continue).
KnownHosts(s, upd) == {o \in upd : o \in Range(s.hosts)}

\* The bounds test on a candidate time for a host of the graph.
OutOfBounds(s, otherHost, time) ==
    \/ time < 1
    \/ time > s.hostToStartTime[otherHost] + Len(s.hostToNodes[otherHost])

\* hostToNodes[otherHost][time - hostToStartTime[otherHost] - 1] is defined
\* (the JS index is 0-based; a negative index reads undefined).
CandidateDefined(s, otherHost, time) ==
    /\ time - s.hostToStartTime[otherHost] - 1 >= 0
    /\ time - s.hostToStartTime[otherHost] - 1 < Len(s.hostToNodes[otherHost])

Candidate(s, otherHost, time) ==
    s.hostToNodes[otherHost][time - s.hostToStartTime[otherHost]]

\* The candidates pushed for one node, given the hosts whose time advanced.
Candidates(s, vt, upd) ==
    {Candidate(s, o, vt[o]) :
        o \in {o \in KnownHosts(s, upd) : CandidateDefined(s, o, vt[o])}}

\* connections after the delete loop: a candidate goes when some candidate's
\* clock holds, for another host than its own, exactly the candidate's
\* "host:time" id.
Connections(s, evs, cands) ==
    {c \in cands :
        ~ \E d \in cands : \E o \in Hosts :
            /\ getVT(s.nodes, evs, d)[o] /= 0
            /\ o /= s.nodes[d].host
            /\ o = s.nodes[c].host
            /\ getVT(s.nodes, evs, d)[o] = getTime(s.nodes, evs, c)}

\* "figure out which child to keep", for one connection.
KeepParent(nodes, evs, currNode, node) ==
    LET currParentOnHost == nodes[currNode].hostToParent[nodes[node].host]
    IN  IF currParentOnHost = NULL
        THEN addParent(nodes, currNode, node)
        ELSE IF getTime(nodes, evs, node) > getTime(nodes, evs, currParentOnHost)
             THEN addParent(nodes, currNode, node)
             ELSE nodes

\* The loop over connections; each connection is on a host of its own, taken
\* here in the order of HostOrder.
RECURSIVE KeepLoop(_, _, _, _, _)
KeepLoop(nodes, evs, currNode, conns, k) ==
    IF k > Len(HostOrder)
    THEN nodes
    ELSE LET onHost == {c \in conns : nodes[c].host = HostOrder[k]}
         IN  KeepLoop(IF onHost = {} THEN nodes
                      ELSE KeepParent(nodes, evs, currNode,
                                      CHOOSE c \in onHost : TRUE),
                      evs, currNode, conns, k + 1)

getOutOfBoundsTimeException(node) ==
    [kind |-> "OutOfBoundsTime", node |-> node, lastNode |-> NULL]

\* "clock[host] = currVT.ownTime" left out: the running clock of the chain
\* does not hold the node's own time when the entries are compared.
SetOwnTimeSkipped(clock, host, vt) == clock

\* clock[host] = currVT.ownTime
SetOwnTime(clock, host, vt) == [clock EXCEPT ![host] = vt[host]]

\* "clock[otherHost] = time" left out: the running clock never advances.
AdvanceNothing(clock, vt, upd) == clock

\* clock[otherHost] = time, for every host whose entry was newer.
Advance(clock, vt, upd) ==
    [o \in Hosts |-> IF o \in upd THEN vt[o] ELSE clock[o]]

\* The while loop of initParentChild over one host's chain, with the running
\* clock of that host; stops at the first throw.
RECURSIVE WalkChain(_, _, _, _, _)
WalkChain(s, evs, host, clock, currNode) ==
    IF currNode = s.hostToTail[host]
    THEN s
    ELSE LET currVT == getVT(s.nodes, evs, currNode)
             clock1 == SetOwnTime(clock, host, currVT)
             upd == UpdatedHosts(clock1, currVT)
             clock2 == Advance(clock1, currVT, upd)
             oob == {o \in KnownHosts(s, upd) : OutOfBounds(s, o, currVT[o])}
             conns == Connections(s, evs, Candidates(s, currVT, upd))
         IN  IF oob /= {}
             THEN [s EXCEPT !.error = getOutOfBoundsTimeException(currNode)]
             ELSE WalkChain(
                      [s EXCEPT !.nodes = KeepLoop(@, evs, currNode, conns, 1)],
                      evs, host, clock2, s.nodes[currNode].next)

\* The loop of initParentChild over hostSet, in insertion order.
RECURSIVE InitParentChildLoop(_, _, _)
InitParentChildLoop(s, evs, k) ==
    IF k > Len(s.hosts) \/ s.error.kind /= "none"
    THEN s
    ELSE LET host == s.hosts[k]
         IN  InitParentChildLoop(
                 WalkChain(s, evs, host, [o \in Hosts |-> 0],
                           s.nodes[s.hostToHead[host]].next),
                 evs, k + 1)

initParentChild(s, evs) == InitParentChildLoop(s, evs, 1)

\* ---------------------------------------------------------------- constructor
\* The body of the ModelGraph constructor: the three init functions in
\* order; a throw ends it.  stepThroughAndVerify is defined but not called.
ModelGraph(s, evs) ==
    LET s1 == initPrevNext(initHosts(s, evs), evs)
    IN  IF s1.error.kind /= "none" THEN s1 ELSE initParentChild(s1, evs)

\* ---------------------------------------------------------------- graph reads
isHead(s, n) == s.nodes[n].isHeadInner

isTail(s, n) == s.nodes[n].isTailInner

\* The nodes that hold a log event.
EventNodes(s) == {n \in DOMAIN s.nodes : ~isHead(s, n) /\ ~isTail(s, n)}

NextEdges(s) ==
    {<<n, s.nodes[n].next>> : n \in {m \in DOMAIN s.nodes : s.nodes[m].next /= NULL}}

ChildEdges(s) ==
    UNION {{<<n, c>> : c \in s.nodes[n].children} : n \in DOMAIN s.nodes}

\* The hosts that own at least one event of the input.
Owners(evs) == {evs[i].host : i \in 1..Len(evs)}

\* Repeatedly drop the nodes without an incoming edge from a remaining node.
RECURSIVE Peel(_, _)
Peel(S, E) ==
    LET sources == {n \in S : ~ \E e \in E : e[2] = n /\ e[1] \in S}
    IN  IF sources = {} THEN S ELSE Peel(S \ sources, E)

Acyclic(s) == Peel(DOMAIN s.nodes, NextEdges(s) \cup ChildEdges(s)) = {}

\* ---------------------------------------------------------------- stepThroughAndVerify
\* No timestamp (an undefined entry of clocks[host]).
NoClock == [h \in Hosts |-> 0]

\* VectorTimestamp.update: the pointwise maximum.
update(vt, other) == [h \in Hosts |-> Max(vt[h], other[h])]

\* clocks[host][time] as first filled in: one entry per position 1..count of
\* the host's chain, holding only the host's own time; the node's own time
\* is the key it is looked up under.
InitialClock(s, evs, n) ==
    LET host == s.nodes[n].host
        time == getTime(s.nodes, evs, n)
    IN  IF time <= Len(s.hostToNodes[host])
        THEN [h \in Hosts |-> IF h = host THEN time ELSE 0]
        ELSE NoClock

\* The nodes whose clock is merged into that of n: its parents and the
\* event node before it on its chain.
Feeders(s, n) ==
    {p \in EventNodes(s) : n \in s.nodes[p].children \/ s.nodes[p].next = n}

RECURSIVE MergeAll(_, _, _)
MergeAll(vt, clocks, P) ==
    IF P = {}
    THEN vt
    ELSE LET p == CHOOSE x \in P : TRUE
         IN  MergeAll(update(vt, clocks[p]), clocks, P \ {p})

\* Forward propagation along next and child edges, round by round; on an
\* acyclic graph this is the result of the pass in topological order.
RECURSIVE Propagate(_, _, _, _)
Propagate(s, evs, clocks, rounds) ==
    IF rounds = 0
    THEN clocks
    ELSE Propagate(s, evs,
             [n \in EventNodes(s) |->
                 MergeAll(InitialClock(s, evs, n), clocks, Feeders(s, n))],
             rounds - 1)

DerivedClocks(s, evs) ==
    Propagate(s, evs, [n \in EventNodes(s) |-> InitialClock(s, evs, n)],
              Cardinality(EventNodes(s)))

\* ---------------------------------------------------------------- clone
\* AbstractGraph.getHosts: a copy of the host list.
getHosts(s) == s.hosts

\* The event nodes of one chain, from n up to the tail.
RECURSIVE ChainNodes(_, _)
ChainNodes(s, n) ==
    IF isTail(s, n) THEN <<>> ELSE <<n>> \o ChainNodes(s, s.nodes[n].next)

\* AbstractGraph.getNodes: the event nodes, host by host in chain order.
RECURSIVE getNodesFrom(_, _)
getNodesFrom(s, k) ==
    IF k > Len(s.hosts)
    THEN <<>>
    ELSE ChainNodes(s, s.nodes[s.hostToHead[s.hosts[k]]].next) \o getNodesFrom(s, k + 1)

\* AbstractGraph.getAllNodes: the event nodes, then the heads, then the tails.
getAllNodes(s) ==
    getNodesFrom(s, 1)
        \o [k \in 1..Len(s.hosts) |-> s.hostToHead[s.hosts[k]]]
        \o [k \in 1..Len(s.hosts) |-> s.hostToTail[s.hosts[k]]]

\* The node clone() allocates for node, as the first loop leaves it.
CloneNode(this, newGraph, node) ==
    [ModelNode(this.nodes[node].logEvents) EXCEPT
        !.visualNode = this.nodes[node].visualNode,
        !.shouldObserve = this.nodes[node].shouldObserve,
        !.nodeType = this.nodes[node].nodeType,
        !.host = this.nodes[node].host,
        !.graph = newGraph.gid,
        !.isHeadInner = this.nodes[node].isHeadInner,
        !.isTailInner = this.nodes[node].isTailInner]

\* CloneObserved that adds the original's node, not the new one.
CloneObservedOldNode(this, node, newNode) ==
    IF node \in this.nodesToObserve THEN {node} ELSE {}

\* What the first loop adds to newGraph.nodesToObserve for one node.
CloneObserved(this, node, newNode) ==
    IF node \in this.nodesToObserve THEN {newNode} ELSE {}

\* The first loop of clone(): one new node per node of allNodes; the i-th
\* gets the next free id, recorded in oldToNewNode.
RECURSIVE CloneNodesLoop(_, _, _, _)
CloneNodesLoop(this, newGraph, allNodes, i) ==
    IF i > Len(allNodes)
    THEN newGraph
    ELSE LET node == allNodes[i]
             id == newGraph.nextId
         IN  CloneNodesLoop(this,
                 [newGraph EXCEPT
                     !.nodes = (id :> CloneNode(this, newGraph, node)) @@ @,
                     !.nextId = id + 1,
                     !.nodesToObserve = @ \cup CloneObserved(this, node, id)],
                 allNodes, i + 1)

\* oldToNewNode after the first loop, ids being handed out in order.
OldToNewNode(firstId, allNodes) ==
    [n \in Range(allNodes) |->
        firstId + (CHOOSE i \in 1..Len(allNodes) : allNodes[i] = n) - 1]

\* CloneLink that copies node.next as it is, without oldToNewNode.
CloneLinkSharedNext(this, nodes, oldToNewNode, node) ==
    LET newNode == oldToNewNode[node]
    IN  [nodes EXCEPT
            ![newNode].prev = IF this.nodes[node].prev /= NULL
                              THEN oldToNewNode[this.nodes[node].prev] ELSE @,
            ![newNode].next = this.nodes[node].next]

\* prev and next of one new node in the last loop of clone().
CloneLink(this, nodes, oldToNewNode, node) ==
    LET newNode == oldToNewNode[node]
    IN  [nodes EXCEPT
            ![newNode].prev = IF this.nodes[node].prev /= NULL
                              THEN oldToNewNode[this.nodes[node].prev] ELSE @,
            ![newNode].next = IF this.nodes[node].next /= NULL
                              THEN oldToNewNode[this.nodes[node].next] ELSE @]

\* The loop over node.getChildren() in the last loop of clone().
RECURSIVE CloneChildren(_, _, _, _)
CloneChildren(nodes, oldToNewNode, newNode, children) ==
    IF children = {}
    THEN nodes
    ELSE LET child == CHOOSE x \in children : TRUE
         IN  CloneChildren(addChild(nodes, newNode, oldToNewNode[child]),
                           oldToNewNode, newNode, children \ {child})

\* The last loop of clone(): links and children of every new node.
RECURSIVE CloneLinksLoop(_, _, _, _, _)
CloneLinksLoop(this, nodes, oldToNewNode, allNodes, i) ==
    IF i > Len(allNodes)
    THEN nodes
    ELSE CloneLinksLoop(this,
             CloneChildren(CloneLink(this, nodes, oldToNewNode, allNodes[i]),
                           oldToNewNode, oldToNewNode[allNodes[i]],
                           this.nodes[allNodes[i]].children),
             oldToNewNode, allNodes, i + 1)

\* ModelGraph.prototype.clone; firstId is the next free node id.
clone(this, gid, firstId) ==
    LET empty == ModelGraph(EmptyBuild(gid, firstId), <<>>)
        allNodes == getAllNodes(this)
        oldToNewNode == OldToNewNode(firstId, allNodes)
        g1 == CloneNodesLoop(this, [empty EXCEPT !.hosts = getHosts(this)],
                             allNodes, 1)
        g2 == [g1 EXCEPT
                  !.hostToHead = [h \in Hosts |->
                      IF this.hostToHead[h] /= NULL
                      THEN oldToNewNode[this.hostToHead[h]] ELSE @[h]],
                  !.hostToTail = [h \in Hosts |->
                      IF this.hostToTail[h] /= NULL
                      THEN oldToNewNode[this.hostToTail[h]] ELSE @[h]]]
    IN  [g2 EXCEPT !.nodes = CloneLinksLoop(this, @, oldToNewNode, allNodes, 1)]

\* ---------------------------------------------------------------- observe
\* ModelGraph.prototype.shouldObserveNode; node = NULL is undefined.
shouldObserveNode(this, node, nodeType) ==
    IF node = NULL
    THEN this
    ELSE [this EXCEPT !.nodesToObserve = @ \cup {node},
                      !.nodes[node].shouldObserve = TRUE,
                      !.nodes[node].nodeType = nodeType]

\* ModelGraph.prototype.shouldNotObserveNode up to its last statement, which
\* reads the undeclared name nodeType and so throws a ReferenceError before
\* node.nodeType is written.
shouldNotObserveNode(this, node) ==
    [this EXCEPT !.nodesToObserve = @ \ {node},
                 !.nodes[node].shouldObserve = FALSE]

\* The rendering layer attaches a new VisualNode object to a node.
attachVisualNode(this, node, visual) ==
    [this EXCEPT !.nodes[node].visualNode = visual]

\* ---------------------------------------------------------------- log text
\* A raw log is a string over a small alphabet.  Each character stands for a
\* piece of text of one kind:
\*   "n"  a newline              "s"  a space
\*   "x"  text no pattern matches
\*   "e"  text the parser pattern matches (in structured mode: one JSON
\*        record), whose clock parses
\*   "q"  the same, with a clock that does not parse
\*   "A", "B"  text the delimiter pattern matches, the trace capture being
\*        "A" or "B"
Chars == {"n", "s", "x", "e", "q", "A", "B"}

Whitespace == {"n", "s"}

DelimiterChars == {"A", "B"}

MatchChars == {"e", "q"}

Texts == ListsOver(Chars, MaxChars)

\* The value of an array read past its end, and of a missing capture.
Undefined == "undefined"

\* The labels an execution can get.
Labels == {"", "A", "B", Undefined}

\* delimiter: null, or a NamedRegExp with or without a trace group.
NoDelimiter == [isNull |-> TRUE, names |-> <<>>]

Delimiters ==
    {NoDelimiter,
     [isNull |-> FALSE, names |-> <<>>],
     [isNull |-> FALSE, names |-> <<"trace">>]}

\* regexp: the structured (zap) format, or a pattern with its named groups.
Regexps ==
    {[zap |-> TRUE, names |-> <<>>],
     [zap |-> FALSE, names |-> <<"event", "host", "clock">>],
     [zap |-> FALSE, names |-> <<"host", "clock", "action", "event">>],
     [zap |-> FALSE, names |-> <<"event", "clock">>]}

\* String.prototype.trim
RECURSIVE trim(_)
trim(str) ==
    IF str = <<>> THEN str
    ELSE IF Head(str) \in Whitespace THEN trim(Tail(str))
    ELSE IF str[Len(str)] \in Whitespace THEN trim(SubSeq(str, 1, Len(str) - 1))
    ELSE str

\* String.prototype.split on a pattern that matches exactly the characters
\* of seps: the pieces between successive matches, empty pieces included.
RECURSIVE split(_, _)
split(str, seps) ==
    IF \A p \in 1..Len(str) : str[p] \notin seps
    THEN <<str>>
    ELSE LET p == MinOf({q \in 1..Len(str) : str[q] \in seps})
         IN  <<SubSeq(str, 1, p - 1)>> \o split(SubSeq(str, p + 1, Len(str)), seps)

\* The number of newlines in the first k characters of str.
Newlines(str, k) == Cardinality({p \in 1..k : str[p] = "n"})

NoError == [kind |-> "none", label |-> "", line |-> 0]

\* ---------------------------------------------------------------- ExecutionParser
\* match[name]: the text the group called name captured in the match ch.
Capture(name, ch) == <<name, ch>>

\* The keys of the field map with "event" let through.
FieldNamesEventKept(regexp) ==
    {regexp.names[k] : k \in 1..Len(regexp.names)} \ {"clock"}

\* The keys of the field map built for a pattern match: every name of
\* regexp.getNames() but "clock" and "event".
FieldNames(regexp) ==
    {regexp.names[k] : k \in 1..Len(regexp.names)} \ {"clock", "event"}

\* fields[name] = match[name], for those names.
Fields(regexp, ch) == [name \in FieldNames(regexp) |-> Capture(name, ch)]

\* new LogEvent(event, timestamp, ln, fields)
LogEvent(event, ln, fields) == [text |-> event, ln |-> ln, fields |-> fields]

\* The line number of a pattern match starting at position p (1-based): the
\* variant counts the newlines without adding one.
LineOfZeroBased(rawString, p) == Newlines(rawString, p - 1)

LineOf(rawString, p) == Newlines(rawString, p - 1) + 1

\* The while loop over regexp.exec, from position from on: the events pushed,
\* or the exception parseStringTimestamp throws.
RECURSIVE ExecLoop(_, _, _, _)
ExecLoop(rawString, regexp, from, logEvents) ==
    LET M == {p \in from..Len(rawString) : rawString[p] \in MatchChars}
    IN  IF M = {}
        THEN [logEvents |-> logEvents, error |-> NoError]
        ELSE LET p == MinOf(M)
                 ln == LineOf(rawString, p)
             IN  IF rawString[p] = "q"
                 THEN [logEvents |-> logEvents,
                       error |-> [kind |-> "timestamp", label |-> "", line |-> ln + 1]]
                 ELSE ExecLoop(rawString, regexp, p + 1,
                               Append(logEvents,
                                      LogEvent(rawString[p], ln,
                                               Fields(regexp, rawString[p]))))

\* JSON.parse of one line of a structured log: spaces around the record are
\* allowed, anything else is a syntax error.
JsonRecord(line) == SelectSeq(line, LAMBDA ch : ch /= "s")

\* parseZapLogs, from line lineNum (0-based) on.
RECURSIVE ZapLoop(_, _, _)
ZapLoop(logLines, lineNum, logEvents) ==
    IF lineNum >= Len(logLines)
    THEN [logEvents |-> logEvents, error |-> NoError]
    ELSE LET line == logLines[lineNum + 1]
         IN  IF line = <<>>
             THEN ZapLoop(logLines, lineNum + 1, logEvents)
             ELSE IF JsonRecord(line) \notin {<<"e">>, <<"q">>}
             THEN [logEvents |-> logEvents,
                   error |-> [kind |-> "syntax", label |-> "", line |-> 0]]
             ELSE IF JsonRecord(line) = <<"q">>
             THEN [logEvents |-> logEvents,
                   error |-> [kind |-> "timestamp", label |-> "", line |-> 0]]
             ELSE ZapLoop(logLines, lineNum + 1,
                          Append(logEvents, LogEvent("e", lineNum, <<>>)))

parseZapLogs(rawString) == ZapLoop(split(trim(rawString), {"n"}), 0, <<>>)

\* The check after the loops: the variant lets an empty execution through.
NoEventsCheckSkipped(r, label) == r

NoEventsCheck(r, label) ==
    IF r.error.kind = "none" /\ r.logEvents = <<>>
    THEN [r EXCEPT !.error = [kind |-> "noEvents", label |-> label, line |-> 0]]
    ELSE r

\* new ExecutionParser(rawString, label, regexp): the parser object, with
\* the exception its constructor ended with.
ExecutionParser(rawString, label, regexp) ==
    LET r == IF regexp.zap
             THEN parseZapLogs(rawString)
             ELSE ExecLoop(rawString, regexp, 1, <<>>)
        checked == NoEventsCheck(r, label)
    IN  [rawString |-> rawString, label |-> label,
         logEvents |-> checked.logEvents, error |-> checked.error]

\* ---------------------------------------------------------------- LogParser
\* The successive matches of delimiter.exec: their trace captures.
Traces(str) == SelectSeq(str, LAMBDA ch : ch \in DelimiterChars)

HasName(re, name) == \E k \in 1..Len(re.names) : re.names[k] = name

\* array[i] for a 0-based index: undefined past the end.
At(array, i) == IF i + 1 <= Len(array) THEN array[i + 1] ELSE Undefined

NoExecution == [present |-> FALSE, logEvents |-> <<>>]

\* A LogParser whose constructor has not run.
NewLogParser ==
    [pc |-> "new", rawString |-> <<>>, currExecs |-> <<>>, currLabels |-> <<>>,
     i |-> 0, labels |-> <<>>, executions |-> [l \in Labels |-> NoExecution],
     error |-> NoError]

\* this.executions[label] = parser; this.labels.push(label), or the
\* exception of the ExecutionParser constructor.
AddExecution(this, ep) ==
    IF ep.error.kind /= "none"
    THEN [this EXCEPT !.pc = "threw", !.error = ep.error]
    ELSE [this EXCEPT !.executions[ep.label] =
                          [present |-> TRUE, logEvents |-> ep.logEvents],
                      !.labels = Append(@, ep.label)]

\* The constructor up to its loop over the executions (lines 36-66), and
\* the whole constructor when there is no delimiter (lines 80-81).
LogParserStart(this, rawString, delimiter, regexp) ==
    LET t == trim(rawString)
        s0 == [this EXCEPT !.rawString = t]
    IN  IF ~regexp.zap /\ ~(HasName(regexp, "clock") /\ HasName(regexp, "host")
                              /\ HasName(regexp, "event"))
        THEN [s0 EXCEPT !.pc = "threw",
                        !.error = [kind |-> "names", label |-> "", line |-> 0]]
        ELSE IF delimiter.isNull
        THEN LET s1 == AddExecution([s0 EXCEPT !.labels = <<"">>],
                                    ExecutionParser(t, "", regexp))
             IN  IF s1.pc = "threw" THEN s1
                 ELSE [s1 EXCEPT !.pc = "done", !.labels = <<"">>]
        ELSE [s0 EXCEPT !.pc = "loop",
                        !.currExecs = split(t, DelimiterChars),
                        !.currLabels =
                            IF HasName(delimiter, "trace")
                            THEN <<"">> \o Traces(t)
                            ELSE <<"">>,
                        !.i = 0]

\* The label of chunk i: the variant counts only the chunks kept so far.
LabelOfChunkByKept(this, i) == At(this.currLabels, Len(this.labels))

LabelOfChunk(this, i) == At(this.currLabels, i)

\* The duplicate test: is an execution stored under the label.
IsDuplicate(this, currlabel) == this.executions[currlabel].present

\* One iteration of the loop over currExecs (lines 68-77), for i = this.i,
\* and the end of the constructor after the last one.
LogParserIteration(this, regexp) ==
    LET i == this.i
        chunk == this.currExecs[i + 1]
        currlabel == LabelOfChunk(this, i)
        s1 == IF trim(chunk) = <<>>
              THEN this
              ELSE IF IsDuplicate(this, currlabel)
              THEN [this EXCEPT !.pc = "threw",
                                !.error = [kind |-> "duplicate",
                                           label |-> currlabel, line |-> 0]]
              ELSE AddExecution(this, ExecutionParser(chunk, currlabel, regexp))
    IN  IF s1.pc = "threw" THEN s1
        ELSE IF i + 1 < Len(this.currExecs)
        THEN [s1 EXCEPT !.i = i + 1]
        ELSE [s1 EXCEPT !.pc = "done"]

\* LogParser.prototype.getLabels
getLabels(this) == this.labels

\* LogParser.prototype.getLogEvents: null for an unknown label.
getLogEvents(this, label) ==
    IF ~this.executions[label].present
    THEN [isNull |-> TRUE, logEvents |-> <<>>]
    ELSE [isNull |-> FALSE, logEvents |-> this.executions[label].logEvents]

\* ---------------------------------------------------------------- state
\* logEvents: the constructor's argument.  pc: how far the constructor is,
\* then "built" (returned), "cloned" (clone() returned) or "threw".
\* b: the graph under construction, then the returned graph.  c: its clone.
\* ops: calls made on the graphs.  visuals: VisualNode objects allocated.
\* exc: the exception the last call on a graph ended with.
VARIABLES logEvents, pc, b, c, ops, visuals, exc

\* rawString, delimiter, regexp: the arguments of the LogParser constructor.
\* lp: the LogParser, with how far its constructor is ("new", "loop", then
\* "done" or "threw").  got: what the last call of its read API returned.
VARIABLES rawString, delimiter, regexp, lp, got

graphVars == <<logEvents, pc, b, c, ops, visuals, exc>>

parseVars == <<rawString, delimiter, regexp, lp, got>>

vars == <<logEvents, pc, b, c, ops, visuals, exc,
          rawString, delimiter, regexp, lp, got>>

NoGraph == EmptyBuild(NULL, NULL)

\* Before the constructor starts: no node, no clone, no call made.
InitRest ==
    /\ pc = "new"
    /\ b = EmptyBuild(1, 1)
    /\ c = NoGraph
    /\ ops = 0
    /\ visuals = 0
    /\ exc = "none"

NotCalled == [op |-> "none", label |-> "", isNull |-> TRUE, value |-> <<>>]

\* No log text is being parsed.
ParseIdle ==
    /\ rawString = <<>>
    /\ delimiter = NoDelimiter
    /\ regexp = [zap |-> TRUE, names |-> <<>>]
    /\ lp = NewLogParser
    /\ got = NotCalled

Init == logEvents \in Inputs /\ InitRest /\ ParseIdle

DoInitHosts ==
    /\ pc = "new"
    /\ b' = initHosts(b, logEvents)
    /\ pc' = "initHosts"
    /\ UNCHANGED <<logEvents, c, ops, visuals, exc>>
    /\ UNCHANGED parseVars

DoInitPrevNext ==
    /\ pc = "initHosts"
    /\ b' = initPrevNext(b, logEvents)
    /\ pc' = IF b'.error.kind = "none" THEN "initPrevNext" ELSE "threw"
    /\ UNCHANGED <<logEvents, c, ops, visuals, exc>>
    /\ UNCHANGED parseVars

DoInitParentChild ==
    /\ pc = "initPrevNext"
    /\ b' = initParentChild(b, logEvents)
    /\ pc' = IF b'.error.kind = "none" THEN "built" ELSE "threw"
    /\ UNCHANGED <<logEvents, c, ops, visuals, exc>>
    /\ UNCHANGED parseVars

Next == DoInitHosts \/ DoInitPrevNext \/ DoInitParentChild

Spec == Init /\ [][Next]_vars

\* ---- the returned graph in use: observe calls, attached visual nodes, clone
\* The graphs used after construction come from lists over Scenario B's events.
CloneInputs == ListsOver(ScenarioBEvents, MaxCloneEvents)

InitClone == logEvents \in CloneInputs /\ InitRest /\ ParseIdle

DoClone ==
    /\ pc = "built"
    /\ c' = clone(b, 2, b.nextId)
    /\ pc' = "cloned"
    /\ exc' = "none"
    /\ UNCHANGED <<logEvents, b, ops, visuals>>
    /\ UNCHANGED parseVars

\* The graphs a caller holds.
Graphs == IF pc = "cloned" THEN {"mg", "clone"} ELSE IF pc = "built" THEN {"mg"} ELSE {}

GraphOf(g) == IF g = "mg" THEN b ELSE c

\* g (the original or the clone) becomes new.
SetGraph(g, new) ==
    /\ g = "mg" => b' = new /\ c' = c
    /\ g = "clone" => c' = new /\ b' = b

DoShouldObserveNode ==
    /\ ops < MaxOps
    /\ \E g \in Graphs : \E node \in EventNodes(GraphOf(g)) \cup {NULL} :
       \E nodeType \in {"top", "bottom"} :
          SetGraph(g, shouldObserveNode(GraphOf(g), node, nodeType))
    /\ ops' = ops + 1
    /\ exc' = "none"
    /\ UNCHANGED <<logEvents, pc, visuals>>
    /\ UNCHANGED parseVars

DoShouldNotObserveNode ==
    /\ ops < MaxOps
    /\ \E g \in Graphs : \E node \in EventNodes(GraphOf(g)) :
          SetGraph(g, shouldNotObserveNode(GraphOf(g), node))
    /\ ops' = ops + 1
    /\ exc' = "ReferenceError"
    /\ UNCHANGED <<logEvents, pc, visuals>>
    /\ UNCHANGED parseVars

DoAttachVisualNode ==
    /\ ops < MaxOps
    /\ \E g \in Graphs : \E node \in EventNodes(GraphOf(g)) :
          SetGraph(g, attachVisualNode(GraphOf(g), node, visuals + 1))
    /\ visuals' = visuals + 1
    /\ ops' = ops + 1
    /\ exc' = "none"
    /\ UNCHANGED <<logEvents, pc>>
    /\ UNCHANGED parseVars

NextClone ==
    \/ DoInitHosts
    \/ DoInitPrevNext
    \/ DoInitParentChild
    \/ DoClone
    \/ DoShouldObserveNode
    \/ DoShouldNotObserveNode
    \/ DoAttachVisualNode

SpecClone == InitClone /\ [][NextClone]_vars

\* ---- log parsing
InitParse ==
    /\ logEvents = <<>>
    /\ InitRest
    /\ rawString \in Texts
    /\ delimiter \in Delimiters
    /\ regexp \in Regexps
    /\ lp = NewLogParser
    /\ got = NotCalled

\* new LogParser(rawString, delimiter, regexp), up to its loop.
DoLogParser ==
    /\ lp.pc = "new"
    /\ lp' = LogParserStart(lp, rawString, delimiter, regexp)
    /\ UNCHANGED <<rawString, delimiter, regexp, got>>
    /\ UNCHANGED graphVars

\* One iteration of the constructor's loop over the executions.
DoLogParserIteration ==
    /\ lp.pc = "loop"
    /\ lp' = LogParserIteration(lp, regexp)
    /\ UNCHANGED <<rawString, delimiter, regexp, got>>
    /\ UNCHANGED graphVars

DoGetLabels ==
    /\ lp.pc = "done"
    /\ got' = [op |-> "getLabels", label |-> "", isNull |-> FALSE,
               value |-> getLabels(lp)]
    /\ UNCHANGED <<rawString, delimiter, regexp, lp>>
    /\ UNCHANGED graphVars

DoGetLogEvents ==
    /\ lp.pc = "done"
    /\ \E label \in Labels :
          LET r == getLogEvents(lp, label)
          IN  got' = [op |-> "getLogEvents", label |-> label,
                      isNull |-> r.isNull, value |-> r.logEvents]
    /\ UNCHANGED <<rawString, delimiter, regexp, lp>>
    /\ UNCHANGED graphVars

NextParse ==
    \/ DoLogParser
    \/ DoLogParserIteration
    \/ DoGetLabels
    \/ DoGetLogEvents

SpecParse == InitParse /\ [][NextParse]_vars

\* ---------------------------------------------------------------- properties
\* The constructor has returned a graph to its caller.
Returned == pc = "built"

\* C1: every graph the constructor returns is acyclic over the union of its
\* next edges and its parent->child edges (an input whose inferred edges
\* form a cycle is rejected, not returned).
C1_ReturnedGraphAcyclic == Returned => Acyclic(b)

\* C2: in every graph the constructor returns, each node's parsed timestamp
\* equals the timestamp derived by forward propagation along its edges.
C2_ParsedEqualsDerived ==
    Returned =>
        \A n \in EventNodes(b) :
            DerivedClocks(b, logEvents)[n] = getVT(b.nodes, logEvents, n)

\* ---- the input, read directly
\* The input positions of host h's events.
EventsOf(evs, h) == {i \in 1..Len(evs) : evs[i].host = h}

OwnTime(evs, i) == evs[i].clock[evs[i].host]

\* Host h's own times are pairwise different and leave no hole.
Contiguous(evs, h) ==
    /\ \A i, j \in EventsOf(evs, h) : i /= j => OwnTime(evs, i) /= OwnTime(evs, j)
    /\ \A i \in EventsOf(evs, h) :
          \/ \A j \in EventsOf(evs, h) : OwnTime(evs, i) <= OwnTime(evs, j)
          \/ \E j \in EventsOf(evs, h) : OwnTime(evs, j) = OwnTime(evs, i) - 1

\* initPrevNext has run to its end without throwing.
PrevNextPassed ==
    \/ pc \in {"initPrevNext", "built"}
    \/ pc = "threw" /\ b.error.kind = "OutOfBoundsTime"

ThrewIncrement == pc = "threw" /\ b.error.kind = "ClockIncrement"

ThrewOutOfBounds == pc = "threw" /\ b.error.kind = "OutOfBoundsTime"

\* The input event a node holds.
EventOf(n) == b.nodes[n].logEvents[1]

\* C3: initPrevNext passes exactly when every host's own times, whatever the
\* first one is, are consecutive (no gap, no repeat); otherwise the
\* constructor throws the clock-increment error, which names two events of
\* one host that are adjacent in own-time order and do not differ by 1, and
\* no graph is returned.
C3_ClockIncrement ==
    /\ PrevNextPassed => \A h \in Hosts : Contiguous(logEvents, h)
    /\ ThrewIncrement =>
          LET i == EventOf(b.error.node)
              j == EventOf(b.error.lastNode)
              h == logEvents[i].host
          IN  /\ i /= j
              /\ logEvents[j].host = h
              /\ OwnTime(logEvents, j) <= OwnTime(logEvents, i)
              /\ OwnTime(logEvents, i) /= OwnTime(logEvents, j) + 1
              /\ ~ \E k \in EventsOf(logEvents, h) :
                     /\ OwnTime(logEvents, j) < OwnTime(logEvents, k)
                     /\ OwnTime(logEvents, k) < OwnTime(logEvents, i)
              /\ ~ Contiguous(logEvents, h)
    /\ (\E h \in Hosts : ~ Contiguous(logEvents, h)) => ~ Returned

\* C3 witness: a host whose first own time is not 1 and whose times have a
\* gap has made the constructor throw the clock-increment error.
C3_Witness ==
    /\ ThrewIncrement
    /\ OwnTime(logEvents, EventOf(b.error.node))
           > OwnTime(logEvents, EventOf(b.error.lastNode)) + 1
    /\ OwnTime(logEvents, EventOf(b.error.lastNode)) > 1

\* ---- Scenario B
IsScenarioB(evs) == Len(evs) = 4 /\ Range(evs) = ScenarioBEvents

\* A node named by its host and own time.
Ident(n) == <<b.nodes[n].host, getTime(b.nodes, logEvents, n)>>

\* The cross-host edges, by host and own time of their ends.
EdgePairs == {<<Ident(e[1]), Ident(e[2])>> : e \in ChildEdges(b)}

\* C4 (as stated): for the Scenario B input the graph has exactly one
\* cross-host edge, from h1's second event to h2's second event.
C4_ScenarioBOneEdge ==
    (IsScenarioB(logEvents) /\ Returned) =>
        EdgePairs = {<< <<"h1", 2>>, <<"h2", 2>> >>}

\* C4 (amended): the Scenario B input is accepted and its graph has exactly
\* two cross-host edges: h2's first event -> h1's second event and h1's
\* second event -> h2's second event.
C4_ScenarioBTwoEdges ==
    IsScenarioB(logEvents) =>
        /\ pc /= "threw"
        /\ Returned =>
              EdgePairs = {<< <<"h2", 1>>, <<"h1", 2>> >>,
                           << <<"h1", 2>>, <<"h2", 2>> >>}

\* C4 witness: the constructor has returned the graph of Scenario B.
C4_Witness == IsScenarioB(logEvents) /\ Returned

\* ---- out-of-bounds times
\* hostToStartTime and the event count of an owning host, read off the input.
StartOf(evs, h) == MinOf({OwnTime(evs, i) : i \in EventsOf(evs, h)}) - 1

CountOf(evs, h) == Cardinality(EventsOf(evs, h))

\* Event i's entry for another host h is a candidate: it is present and
\* exceeds the entry for h of every earlier event of i's own host.
NewerEntry(evs, i, h) ==
    /\ h /= evs[i].host
    /\ evs[i].clock[h] >= 1
    /\ \A j \in EventsOf(evs, evs[i].host) :
          OwnTime(evs, j) < OwnTime(evs, i) => evs[j].clock[h] < evs[i].clock[h]

\* A candidate entry for an owning host with a time past that host's window.
OutOfWindow(evs, i, h) ==
    /\ h \in Owners(evs)
    /\ NewerEntry(evs, i, h)
    /\ evs[i].clock[h] > StartOf(evs, h) + CountOf(evs, h)

\* C5: once the per-host chains are built, a candidate entry (h, t) for an
\* owning host h with t > start(h) + count(h) makes the constructor throw the
\* out-of-bounds-time error for an event holding such an entry, and no graph
\* is returned.
C5_OutOfBoundsTime ==
    /\ ThrewOutOfBounds =>
          \E h \in Hosts : OutOfWindow(logEvents, EventOf(b.error.node), h)
    /\ Returned =>
          \A i \in 1..Len(logEvents) : \A h \in Hosts : ~ OutOfWindow(logEvents, i, h)
    /\ (PrevNextPassed /\ pc /= "initPrevNext"
           /\ \E i \in 1..Len(logEvents) : \E h \in Hosts : OutOfWindow(logEvents, i, h))
          => ThrewOutOfBounds

\* C5 witness: a clock names a host with two events (times 1 and 2) at a
\* later time, and the constructor has thrown the out-of-bounds-time error.
C5_Witness ==
    /\ ThrewOutOfBounds
    /\ \E h \in Hosts :
          /\ OutOfWindow(logEvents, EventOf(b.error.node), h)
          /\ CountOf(logEvents, h) = 2
          /\ StartOf(logEvents, h) = 0

\* ---- hosts without events
\* The input with every clock entry for a host that owns no event removed.
Strip(evs) ==
    [i \in 1..Len(evs) |->
        [evs[i] EXCEPT !.clock =
            [h \in Hosts |-> IF h \in Owners(evs) THEN evs[i].clock[h] ELSE 0]]]

\* C6: clock entries for a host that owns no event change nothing: the
\* constructor ends exactly as on the input without those entries (same
\* throw or same graph), no node gets a parent on such a host, and the host
\* list does not hold it.
C6_UnknownHostSkipped ==
    /\ pc \in {"built", "threw"} => b = ModelGraph(EmptyBuild(1, 1), Strip(logEvents))
    /\ Returned =>
          \A f \in Hosts \ Owners(logEvents) :
              /\ f \notin Range(b.hosts)
              /\ \A n \in DOMAIN b.nodes : b.nodes[n].hostToParent[f] = NULL

\* C6 witness: a graph was returned for an input in which some clock has an
\* entry, with a time above 1, for a host that owns no event.
C6_Witness ==
    /\ Returned
    /\ \E i \in 1..Len(logEvents) : \E f \in Hosts \ Owners(logEvents) :
          logEvents[i].clock[f] >= 2

\* ---- chains
\* The nodes reached from n by next, n first; fuel bounds the walk.
RECURSIVE ChainFrom(_, _, _)
ChainFrom(s, n, fuel) ==
    IF n = NULL \/ fuel = 0
    THEN <<>>
    ELSE <<n>> \o ChainFrom(s, s.nodes[n].next, fuel - 1)

ChainOfHost(s, h) == ChainFrom(s, s.hostToHead[h], Cardinality(DOMAIN s.nodes) + 1)

\* C7: in every returned graph each host has exactly one head and one tail,
\* both without log events; next from the head visits exactly the host's
\* event nodes, one per input event of the host, in strictly increasing
\* own-time order, and then the tail; prev inverts next along the chain;
\* head.prev and tail.next are null.
C7_HostChains ==
    Returned =>
        /\ \A n \in DOMAIN b.nodes : b.nodes[n].host \in Range(b.hosts)
        /\ \A h \in Range(b.hosts) :
            LET chain == ChainOfHost(b, h)
                len == Len(chain)
                inner == {chain[k] : k \in 2..(len - 1)}
            IN  /\ {n \in DOMAIN b.nodes : isHead(b, n) /\ b.nodes[n].host = h}
                       = {b.hostToHead[h]}
                /\ {n \in DOMAIN b.nodes : isTail(b, n) /\ b.nodes[n].host = h}
                       = {b.hostToTail[h]}
                /\ b.nodes[b.hostToHead[h]].logEvents = <<>>
                /\ b.nodes[b.hostToTail[h]].logEvents = <<>>
                /\ len >= 2
                /\ chain[1] = b.hostToHead[h]
                /\ chain[len] = b.hostToTail[h]
                /\ b.nodes[chain[1]].prev = NULL
                /\ b.nodes[chain[len]].next = NULL
                /\ \A k \in 2..len : b.nodes[chain[k]].prev = chain[k - 1]
                /\ inner = {n \in EventNodes(b) : b.nodes[n].host = h}
                /\ Cardinality(inner) = len - 2
                /\ \A n \in inner : Len(b.nodes[n].logEvents) = 1
                /\ {EventOf(n) : n \in inner} = EventsOf(logEvents, h)
                /\ len - 2 = CountOf(logEvents, h)
                /\ \A k \in 2..(len - 2) :
                      getTime(b.nodes, logEvents, chain[k])
                          < getTime(b.nodes, logEvents, chain[k + 1])

\* C7 witness: a returned graph with a host whose events came in the input
\* in decreasing own-time order.
C7_Witness ==
    /\ Returned
    /\ \E i, j \in 1..Len(logEvents) :
          /\ i < j
          /\ logEvents[i].host = logEvents[j].host
          /\ OwnTime(logEvents, i) > OwnTime(logEvents, j)

\* ---- host list
FirstIndex(evs, h) == MinOf(EventsOf(evs, h))

\* C8: the host list holds each host that owns an event exactly once, in the
\* order of the hosts' first events in the input.
C8_HostOrder ==
    pc /= "new" =>
        /\ Range(b.hosts) = Owners(logEvents)
        /\ \A k, l \in 1..Len(b.hosts) :
              k < l => FirstIndex(logEvents, b.hosts[k]) < FirstIndex(logEvents, b.hosts[l])

\* C8 witness: a returned graph whose host list is h2, h1 although the first
\* event (on h2) has own time 2 and h1's event has own time 1.
C8_Witness ==
    /\ Returned
    /\ b.hosts = <<"h2", "h1">>
    /\ OwnTime(logEvents, 1) = 2
    /\ \E i \in EventsOf(logEvents, "h1") : OwnTime(logEvents, i) = 1

\* ---- clone
\* What identifies a node inside its graph: host, log events, sentinel flags.
NodeKey(s, n) ==
    <<s.nodes[n].host, s.nodes[n].logEvents, s.nodes[n].isHeadInner,
      s.nodes[n].isTailInner>>

\* The node of graph new with the key of node n of graph old.
Twin(old, new, n) ==
    IF n = NULL
    THEN NULL
    ELSE CHOOSE m \in DOMAIN new.nodes : NodeKey(new, m) = NodeKey(old, n)

\* new is structurally equal to old, on node objects of its own.
StructEqual(old, new) ==
    /\ new.hosts = old.hosts
    /\ Cardinality(DOMAIN new.nodes) = Cardinality(DOMAIN old.nodes)
    /\ DOMAIN new.nodes \cap DOMAIN old.nodes = {}
    /\ \A n \in DOMAIN old.nodes :
          Cardinality({m \in DOMAIN new.nodes : NodeKey(new, m) = NodeKey(old, n)}) = 1
    /\ \A m \in DOMAIN new.nodes :
          Cardinality({n \in DOMAIN old.nodes : NodeKey(new, m) = NodeKey(old, n)}) = 1
    /\ \A n \in DOMAIN old.nodes :
          LET m == Twin(old, new, n)
          IN  /\ new.nodes[m].prev = Twin(old, new, old.nodes[n].prev)
              /\ new.nodes[m].next = Twin(old, new, old.nodes[n].next)
              /\ \A h \in Hosts :
                    new.nodes[m].hostToParent[h]
                        = Twin(old, new, old.nodes[n].hostToParent[h])
              /\ new.nodes[m].children
                        = {Twin(old, new, x) : x \in old.nodes[n].children}
              /\ new.nodes[m].graph = new.gid
              /\ new.gid /= old.gid
    /\ \A h \in Hosts :
          /\ new.hostToHead[h] = Twin(old, new, old.hostToHead[h])
          /\ new.hostToTail[h] = Twin(old, new, old.hostToTail[h])
    /\ ChildEdges(new)
          = {<<Twin(old, new, e[1]), Twin(old, new, e[2])>> : e \in ChildEdges(old)}

\* C9: the graph clone() returns is structurally equal to the original: same
\* host list, same number of nodes, and a one-to-one old->new correspondence
\* that keeps host, log events, head/tail flags, prev/next, the head/tail
\* lookup and all parent/child edges; no node is shared and every new node's
\* graph is the clone.
C9_CloneStructurallyEqual ==
    [][(pc = "built" /\ pc' = "cloned") => StructEqual(b', c')]_vars

\* C9 witness: clone() has returned the copy of a graph that has a
\* cross-host edge and an observed node.
C9_Witness ==
    /\ pc = "cloned"
    /\ ChildEdges(b) /= {}
    /\ ChildEdges(c) /= {}
    /\ b.nodesToObserve /= {}

\* The VisualNode objects attached to nodes of a graph.
VisualsOf(s) == {s.nodes[n].visualNode : n \in DOMAIN s.nodes} \ {NULL}

\* Every node reference held by graph s is to a node of s.
NodesPrivate(s) ==
    LET N == DOMAIN s.nodes
    IN  /\ s.nodesToObserve \subseteq N
        /\ \A h \in Hosts : {s.hostToHead[h], s.hostToTail[h]} \subseteq N \cup {NULL}
        /\ \A n \in N :
              /\ s.nodes[n].graph = s.gid
              /\ {s.nodes[n].prev, s.nodes[n].next} \subseteq N \cup {NULL}
              /\ s.nodes[n].children \subseteq N
              /\ \A h \in Hosts : s.nodes[n].hostToParent[h] \in N \cup {NULL}

\* C10 (as stated): after clone() no mutable object is reachable from both
\* graphs: no node and no attached visualNode object.
C10_NoSharedMutableState ==
    pc = "cloned" =>
        /\ DOMAIN b.nodes \cap DOMAIN c.nodes = {}
        /\ VisualsOf(b) \cap VisualsOf(c) = {}

\* C10 (amended): clone() leaves the original as it was; afterwards the two
\* graphs have disjoint node objects, each graph's links, edges, head/tail
\* lookup and observed-node set refer to its own nodes only, and a call on
\* one graph leaves the other graph unchanged.  (Attached visualNode objects
\* are copied by reference and stay shared.)
C10_CloneIndependent ==
    [][/\ (pc = "built" /\ pc' = "cloned") => b' = b
       /\ pc' = "cloned" =>
             /\ DOMAIN b'.nodes \cap DOMAIN c'.nodes = {}
             /\ NodesPrivate(b')
             /\ NodesPrivate(c')
       /\ (pc = "cloned" /\ pc' = "cloned") => (b' = b \/ c' = c)]_vars

\* C10 witness: after clone() a node of the clone alone was marked observed,
\* while a visualNode attached before the clone is held by both graphs.
C10_Witness ==
    /\ pc = "cloned"
    /\ c.nodesToObserve /= {}
    /\ b.nodesToObserve = {}
    /\ VisualsOf(b) \cap VisualsOf(c) /= {}

\* ---- log parsing, read off the raw text
\* The element of the set R of numbers with k - 1 elements of R below it.
Kth(R, k) == CHOOSE d \in R : Cardinality({e \in R : e < d}) = k - 1

\* The positions of the delimiter matches in the raw text.
DelimAt(rs) == {p \in 1..Len(rs) : rs[p] \in DelimiterChars}

\* A chunk is named by the position of the delimiter match before it, 0 for
\* the chunk before the first match; it ends before the next match.
ChunkEnd(rs, d) == MinOf({p \in DelimAt(rs) : p > d} \cup {Len(rs) + 1}) - 1

\* The chunks that do not trim to empty.
Retained(rs) ==
    {d \in {0} \cup DelimAt(rs) :
        \E p \in (d + 1)..ChunkEnd(rs, d) : rs[p] \notin Whitespace}

\* The trace capture of the match before chunk d.
TraceLabel(rs, d) == IF d = 0 THEN "" ELSE rs[d]

WithTrace == ~delimiter.isNull /\ HasName(delimiter, "trace")

WithoutTrace == ~delimiter.isNull /\ ~HasName(delimiter, "trace")

Constructed == lp.pc = "done"

\* C11: with a trace group in the delimiter, a constructed LogParser holds
\* one label per chunk that does not trim to empty, in the order of the
\* chunks in the text: "" for the chunk before the first delimiter match and
\* the trace capture of the match right before it for every other chunk,
\* whatever chunks before it were blank; getLabels() returns that list, and
\* exactly the retained chunks' labels have an execution.
C11_TraceLabels ==
    (Constructed /\ WithTrace) =>
        LET R == Retained(rawString)
        IN  /\ Len(lp.labels) = Cardinality(R)
            /\ \A k \in 1..Len(lp.labels) :
                  lp.labels[k] = TraceLabel(rawString, Kth(R, k))
            /\ \A l \in Labels :
                  lp.executions[l].present
                      <=> \E d \in R : TraceLabel(rawString, d) = l
            /\ got.op = "getLabels" => got.value = lp.labels

\* A retained chunk before the first match, then a blank chunk between two
\* matches, then a retained chunk; getLabels() was called.
C11_Witness ==
    /\ Constructed
    /\ WithTrace
    /\ got.op = "getLabels"
    /\ 0 \in Retained(rawString)
    /\ \E d1, d2 \in DelimAt(rawString) :
          /\ d1 < d2
          /\ d1 \notin Retained(rawString)
          /\ d2 \in Retained(rawString)
          /\ rawString[d1] /= rawString[d2]

\* C12: with a delimiter that has no trace group, every label a constructed
\* LogParser holds is the empty string.
C12_NoTraceLabelsEmpty ==
    (Constructed /\ WithoutTrace) =>
        \A k \in 1..Len(lp.labels) : lp.labels[k] = ""

\* The constructor has ended, one way or the other.
Ended == lp.pc \in {"done", "threw"}

NamesGiven ==
    regexp.zap \/ (HasName(regexp, "clock") /\ HasName(regexp, "host")
                     /\ HasName(regexp, "event"))

\* C13: when two retained chunks of the input get the same label, the
\* constructor ends with the duplicate-label error naming that label; and
\* the label list of a constructed LogParser holds no label twice.
C13_DuplicateLabelRejected ==
    /\ (Ended /\ WithTrace /\ NamesGiven) =>
          \A d1, d2 \in Retained(rawString) :
              (d1 < d2 /\ TraceLabel(rawString, d1) = TraceLabel(rawString, d2))
                  => /\ lp.pc = "threw"
                     /\ lp.error.kind = "duplicate"
                     /\ lp.error.label = TraceLabel(rawString, d1)
    /\ Constructed =>
          \A j, k \in 1..Len(lp.labels) : j /= k => lp.labels[j] /= lp.labels[k]

\* The text and the label of the ExecutionParser the constructor made last.
CurrentText == IF delimiter.isNull THEN lp.rawString ELSE lp.currExecs[lp.i + 1]

CurrentLabel == IF delimiter.isNull THEN "" ELSE At(lp.currLabels, lp.i)

\* The text yields no event: no pattern match, or no non-blank line.
ZeroEvents(text) ==
    IF regexp.zap
    THEN \A p \in 1..Len(text) : text[p] \in Whitespace
    ELSE \A p \in 1..Len(text) : text[p] \notin MatchChars

ThrewInExecution ==
    lp.pc = "threw" /\ lp.error.kind \notin {"names", "duplicate"}

\* C14: the ExecutionParser constructor fails with the no-events error
\* exactly when its text yields no event, and the error names the
\* execution's label; every execution a LogParser holds has events.
C14_NoEvents ==
    /\ ThrewInExecution =>
          /\ ZeroEvents(CurrentText) <=> lp.error.kind = "noEvents"
          /\ lp.error.kind = "noEvents" => lp.error.label = CurrentLabel
    /\ \A l \in Labels :
          lp.executions[l].present => lp.executions[l].logEvents /= <<>>

\* A chunk labelled "A" without a pattern match, after an execution that
\* parsed.
C14_Witness ==
    /\ ThrewInExecution
    /\ ~regexp.zap
    /\ lp.error.kind = "noEvents"
    /\ lp.error.label = "A"
    /\ lp.labels /= <<>>

\* C15: when the ExecutionParser of one chunk fails (no events, or a clock
\* that does not parse), every later retained chunk of the input is still
\* handed to an ExecutionParser: the constructor does not end with a
\* retained chunk left that it never reached.
C15_LaterExecutionsAttempted ==
    (lp.pc = "threw" /\ lp.error.kind \in {"noEvents", "timestamp"}
        /\ ~delimiter.isNull) =>
        \A j \in (lp.i + 1)..(Len(lp.currExecs) - 1) :
            trim(lp.currExecs[j + 1]) = <<>>

\* ---- events of an execution
\* The text of the execution labelled l of a LogParser that holds one.
TextOf(l) ==
    IF delimiter.isNull
    THEN lp.rawString
    ELSE lp.currExecs[1 + CHOOSE j \in 0..(Len(lp.currExecs) - 1) :
            /\ At(lp.currLabels, j) = l
            /\ trim(lp.currExecs[j + 1]) /= <<>>]

MatchesAt(text) == {p \in 1..Len(text) : text[p] \in MatchChars}

\* The events are the pattern matches of text in order, each with the line
\* of its start.
OnePerMatch(events, text) ==
    /\ Len(events) = Cardinality(MatchesAt(text))
    /\ \A k \in 1..Len(events) :
          LET p == Kth(MatchesAt(text), k)
          IN  /\ events[k].text = text[p]
              /\ events[k].ln = 1 + Cardinality({q \in 1..(p - 1) : text[q] = "n"})

\* C20: in pattern mode every execution holds exactly one LogEvent per
\* pattern match of its text, in match order, the line number of each being
\* 1 plus the number of newlines before the match start; getLogEvents
\* returns that list.
C20_OneEventPerMatch ==
    ~regexp.zap =>
        \A l \in Labels :
            lp.executions[l].present =>
                /\ OnePerMatch(lp.executions[l].logEvents, TextOf(l))
                /\ (got.op = "getLogEvents" /\ got.label = l) =>
                      (~got.isNull /\ got.value = lp.executions[l].logEvents)

\* getLogEvents returned two events of a chunk that starts with a newline:
\* the first event is on line 2.
C20_Witness ==
    /\ ~regexp.zap
    /\ got.op = "getLogEvents"
    /\ ~got.isNull
    /\ Len(got.value) = 2
    /\ got.value[1].ln = 2

\* ---- parents
\* The parents of a node of the returned graph.
Parents(n) == {b.nodes[n].hostToParent[h] : h \in Hosts} \ {NULL}

\* C16: in every returned graph no node has two parents P and Q with Q's
\* clock entry for P's host greater than or equal to P's own time: a
\* candidate dominated by another candidate's timestamp is never a parent.
C16_NoDominatedParents ==
    Returned =>
        \A n \in EventNodes(b) : \A P, Q \in Parents(n) :
            P /= Q =>
                getVT(b.nodes, logEvents, Q)[b.nodes[P].host]
                    < getTime(b.nodes, logEvents, P)

\* C17: in every returned graph a node has at most one parent per host (a
\* parent on host h is a node of h, and the child sets mirror the parent
\* maps), no parent on its own host, and no head or tail is a parent or a
\* child; the parent kept on a host is the node with the largest own time
\* among the nodes of that host the child's clock entry offers.
C17_OneParentPerHost ==
    Returned =>
        \A n \in DOMAIN b.nodes :
            /\ \A h \in Hosts :
                  LET P == b.nodes[n].hostToParent[h]
                  IN  P /= NULL =>
                        /\ b.nodes[P].host = h
                        /\ h /= b.nodes[n].host
                        /\ P \in EventNodes(b)
                        /\ n \in EventNodes(b)
                        /\ n \in b.nodes[P].children
                        /\ \A cand \in EventNodes(b) :
                              (/\ b.nodes[cand].host = h
                               /\ getTime(b.nodes, logEvents, cand)
                                      = getVT(b.nodes, logEvents, n)[h])
                                  => getTime(b.nodes, logEvents, cand)
                                         <= getTime(b.nodes, logEvents, P)
            /\ \A ch \in b.nodes[n].children :
                  b.nodes[ch].hostToParent[b.nodes[n].host] = n

\* A node with parents on two hosts.
C17_Witness ==
    /\ Returned
    /\ \E n \in EventNodes(b) : Cardinality(Parents(n)) = 2

\* The event nodes before n on n's own chain.
EarlierOnChain(n) ==
    {m \in EventNodes(b) :
        /\ b.nodes[m].host = b.nodes[n].host
        /\ getTime(b.nodes, logEvents, m) < getTime(b.nodes, logEvents, n)}

\* C18: every parent->child edge P->N of a returned graph is justified by
\* N's clock: P's own time is N's entry for P's host, and that entry is
\* strictly greater than the entry for P's host of every earlier node of N's
\* chain (an absent entry counting as smaller).
C18_EdgesJustified ==
    Returned =>
        \A e \in ChildEdges(b) :
            LET P == e[1]
                N == e[2]
                h == b.nodes[P].host
            IN  /\ getTime(b.nodes, logEvents, P) = getVT(b.nodes, logEvents, N)[h]
                /\ \A m \in EarlierOnChain(N) :
                      getVT(b.nodes, logEvents, m)[h]
                          < getVT(b.nodes, logEvents, N)[h]

\* An edge into a node whose chain has an earlier node with an older entry
\* for the parent's host.
C18_Witness ==
    /\ Returned
    /\ \E e \in ChildEdges(b) : \E m \in EarlierOnChain(e[2]) :
          getVT(b.nodes, logEvents, m)[b.nodes[e[1]].host] >= 1

\* ---- input order
\* Two permutations that generate all of them: the first two events
\* exchanged, and the first event moved to the end.  Every input family is
\* the set of all lists over a set of events, so an outcome that survives
\* both survives every permutation.
Swap(evs) ==
    IF Len(evs) < 2 THEN evs
    ELSE <<evs[2], evs[1]>> \o SubSeq(evs, 3, Len(evs))

Rotate(evs) == IF evs = <<>> THEN evs ELSE Append(Tail(evs), Head(evs))

\* The events of host h's chain in next order, sentinels left out.
ChainEvents(s, evs, h) ==
    LET chain == ChainOfHost(s, h)
    IN  [k \in 1..(IF Len(chain) >= 2 THEN Len(chain) - 2 ELSE 0) |->
            evs[s.nodes[chain[k + 1]].logEvents[1]]]

\* The parent->child edges as pairs of events.
EdgeEvents(s, evs) ==
    {<<evs[s.nodes[e[1]].logEvents[1]], evs[s.nodes[e[2]].logEvents[1]]>> :
        e \in ChildEdges(s)}

\* How the constructor ended on evs: the kind of error, or the chains and
\* the edges of the graph.
Outcome(s, evs) ==
    IF s.error.kind /= "none"
    THEN [kind |-> s.error.kind, chains |-> [h \in Hosts |-> <<>>], edges |-> {}]
    ELSE [kind |-> "none",
          chains |-> [h \in Hosts |-> ChainEvents(s, evs, h)],
          edges |-> EdgeEvents(s, evs)]

OutcomeOn(evs) == Outcome(ModelGraph(EmptyBuild(1, 1), evs), evs)

\* C19: the constructor ends on a permutation of its input as on the input:
\* with the same kind of error, or with the same events in the same order
\* on every host chain and the same parent->child edges.
C19_PermutationInvariant ==
    pc \in {"built", "threw"} =>
        /\ Outcome(b, logEvents) = OutcomeOn(Swap(logEvents))
        /\ Outcome(b, logEvents) = OutcomeOn(Rotate(logEvents))

\* A returned graph with an edge, built from an input that lists a host's
\* events out of own-time order and changes under both permutations.
C19_Witness ==
    /\ Returned
    /\ ChildEdges(b) /= {}
    /\ Swap(logEvents) /= logEvents
    /\ Rotate(logEvents) /= logEvents
    /\ b.hosts /= ModelGraph(EmptyBuild(1, 1), Swap(logEvents)).hosts
    /\ \E i, j \in 1..Len(logEvents) :
          /\ i < j
          /\ logEvents[i].host = logEvents[j].host
          /\ OwnTime(logEvents, i) > OwnTime(logEvents, j)

\* ---- fields of an event
\* The named groups of the pattern.
GroupNames == {regexp.names[k] : k \in 1..Len(regexp.names)}

\* The events of the executions the LogParser holds.
HeldEvents ==
    UNION {Range(lp.executions[l].logEvents) :
              l \in {k \in Labels : lp.executions[k].present}}

\* C21 (as stated): in pattern mode the keys of every event's field map are
\* exactly the named groups of the pattern other than clock, event and host;
\* none of the three is a key.
C21_FieldsWithoutMandatory ==
    ~regexp.zap =>
        \A ev \in HeldEvents :
            /\ DOMAIN ev.fields = GroupNames \ {"clock", "event", "host"}
            /\ \A name \in DOMAIN ev.fields : ev.fields[name] = Capture(name, ev.text)

\* C21 (amended): in pattern mode the keys of every event's field map are
\* exactly the named groups of the pattern other than clock and event, host
\* among them, each mapped to the text its group captured; getLogEvents
\* returns the events with these maps.
C21_FieldsWithHost ==
    ~regexp.zap =>
        /\ \A ev \in HeldEvents :
              /\ DOMAIN ev.fields = GroupNames \ {"clock", "event"}
              /\ "host" \in DOMAIN ev.fields
              /\ \A name \in DOMAIN ev.fields :
                    ev.fields[name] = Capture(name, ev.text)
        /\ (got.op = "getLogEvents" /\ ~got.isNull) =>
              Range(got.value) \subseteq HeldEvents

\* getLogEvents returned an event of a pattern with the additional group
\* "action".
C21_Witness ==
    /\ ~regexp.zap
    /\ got.op = "getLogEvents"
    /\ ~got.isNull
    /\ \E k \in 1..Len(got.value) :
          DOMAIN got.value[k].fields = {"host", "action"}

\* ---- times before the window
\* A candidate entry for an owning host with a time before that host's first
\* event: 1 <= t <= start(h).
BeforeWindow(evs, i, h) ==
    /\ h \in Owners(evs)
    /\ NewerEntry(evs, i, h)
    /\ evs[i].clock[h] <= StartOf(evs, h)

\* C22: a candidate entry (h, t) with 1 <= t <= start(h) raises no error and
\* adds no edge: once the chains are built the constructor throws only for an
\* entry past a window and otherwise returns the graph, and in the returned
\* graph a node holding such an entry has no parent on h.
C22_BeforeWindowIgnored ==
    /\ Returned =>
          \A n \in EventNodes(b) : \A h \in Hosts :
              BeforeWindow(logEvents, EventOf(n), h)
                  => b.nodes[n].hostToParent[h] = NULL
    /\ (PrevNextPassed /\ pc /= "initPrevNext"
           /\ \A i \in 1..Len(logEvents) : \A h \in Hosts :
                 ~ OutOfWindow(logEvents, i, h))
          => Returned

\* A returned graph with a node whose clock names a host of the graph at a
\* time before that host's first event, next to a node that has a parent.
C22_Witness ==
    /\ Returned
    /\ ChildEdges(b) /= {}
    /\ \E n \in EventNodes(b) : \E h \in Hosts :
          BeforeWindow(logEvents, EventOf(n), h)

\* ---- observe and its undo
\* A step in which shouldNotObserveNode(node) ran on graph g.
NotObserveStep(g, node) ==
    /\ DoShouldNotObserveNode
    /\ (IF g = "mg" THEN b' ELSE c') = shouldNotObserveNode(GraphOf(g), node)
    /\ (IF g = "mg" THEN c' = c ELSE b' = b)

\* A step in which shouldObserveNode(undefined, type) ran.
ObserveUndefinedStep ==
    /\ DoShouldObserveNode
    /\ b' = b
    /\ c' = c

\* C23: shouldNotObserveNode(node) ends without an error for every node of
\* the graph, and after it the node is not in nodesToObserve and its
\* shouldObserve flag is false; shouldObserveNode(undefined, type) leaves
\* both graphs as they were and ends without an error.
C23_NotObserveUndoesObserve ==
    [][/\ \A g \in Graphs : \A node \in EventNodes(GraphOf(g)) :
             NotObserveStep(g, node) =>
                 /\ exc' = "none"
                 /\ node \notin (IF g = "mg" THEN b' ELSE c').nodesToObserve
                 /\ ~(IF g = "mg" THEN b' ELSE c').nodes[node].shouldObserve
       /\ ObserveUndefinedStep => exc' = "none"]_vars

====
